---- MODULE Spec2Model ----
(***************************************************************************)
(* Mount lifecycle of PlugNPass (src/iphone_file_transfer.py).             *)
(*                                                                         *)
(* The program state is the two globals CURRENT_MOUNT_TYPE and             *)
(* CURRENT_APP_ID, the listbox file_list, and the part of the operating    *)
(* system the handlers read and write: the mount-table entry of MOUNT_PATH *)
(* and the directory under it.  Every handler is one action.  A handler is *)
(* written as an operator from a "world" record to the set of worlds it    *)
(* can end in, one per combination of outcomes of the external commands it *)
(* runs.  `op` names the handler that has just returned and `tr` is the    *)
(* sequence of its events (commands run, dialogs shown, globals written,   *)
(* checks made); the event loop forgets both before it dispatches the next *)
(* handler.                                                                *)
(*                                                                         *)
(* `dialogs` is the stack of modal dialogs that are open, each with the     *)
(* handler that waits in it, and `after_list_files` tells whether the       *)
(* callback main() schedules with root.after is still to be dispatched.     *)
(* Only the specification of the event dispatch (SpecDispatch) moves them.  *)
(***************************************************************************)
EXTENDS Naturals, Sequences, FiniteSets

VARIABLES CURRENT_MOUNT_TYPE, CURRENT_APP_ID, mnt, dir, file_list, device, op, tr,
          dialogs, after_list_files

vars == <<CURRENT_MOUNT_TYPE, CURRENT_APP_ID, mnt, dir, file_list, device, op, tr,
          dialogs, after_list_files>>

(***************************************************************************)
(* Bounds and value sets.                                                  *)
(***************************************************************************)
\* number of loose files that can lie directly in the mount directory
NumLooseFiles == 1

LooseFiles == 1..NumLooseFiles

\* Python's None, for the globals and for helper results
None == "None"

\* application identifiers ifuse --list-apps can report; "" is the id of a
\* record whose first field is blank
AppIds == {"", "com.a", "com.b"}

\* device identifiers idevice_id -l can report
Udids == {"u1", "u2"}

\* outcome of launching an external command: exit 0, exit nonzero, or
\* subprocess.run raising because the command could not be launched
RunOutcomes == {"ok", "fail", "raise"}

NoMount == [kind |-> "none", alive |-> FALSE, marker |-> FALSE]

\* mount-table entries of MOUNT_PATH: kind of ifuse mount, whether its FUSE
\* endpoint is still connected, and whether the line `mount` prints for it
\* holds the word "documents"
MountEntries ==
  {NoMount} \cup [kind : {"media", "documents"}, alive : BOOLEAN, marker : BOOLEAN]

\* the directory below the mount: existence, ownership and permission, loose
\* files directly in it, and whether it holds a subdirectory
NoDir == [exists |-> FALSE, perm |-> "none", files |-> {}, sub |-> FALSE]

\* perm: "rwx" owned by the user and writable, "r-x" owned by the user but
\* not writable, "root" owned by root (mode 755), as a helper run under sudo
\* leaves it
DirStates ==
  {NoDir} \cup
  [exists : {TRUE}, perm : {"rwx", "r-x", "root"}, files : SUBSET LooseFiles,
   sub : BOOLEAN]

FreshDir(perm) == [exists |-> TRUE, perm |-> perm, files |-> {}, sub |-> FALSE]

(***************************************************************************)
(* Worlds.                                                                 *)
(***************************************************************************)
World ==
  [mt |-> CURRENT_MOUNT_TYPE, app |-> CURRENT_APP_ID, mnt |-> mnt, dir |-> dir,
   fl |-> file_list, dev |-> device, tr |-> <<>>]

\* os.path.exists(MOUNT_PATH): a mount whose endpoint is dead cannot be stat'ed
path_exists(w) ==
  IF w.mnt.kind = "none" THEN w.dir.exists ELSE w.mnt.alive

\* os.path.ismount(MOUNT_PATH)
check_mount(w) == w.mnt.kind # "none" /\ w.mnt.alive

\* an event of the running handler; m records whether MOUNT_PATH was a live
\* mount when it happened, l is the list an event carries
LogL(w, e, a, b, l) ==
  [w EXCEPT !.tr = Append(@, [e |-> e, a |-> a, b |-> b, l |-> l,
                              m |-> check_mount(w)])]

Log(w, e, a, b) == LogL(w, e, a, b, {})

\* messagebox.showinfo / showerror / update_status-only outcomes
Show(w, kind, title) == Log(w, "show", kind, title)

Idle == [name |-> "idle", arg |-> ""]

\* a Python bool as the text of an event
BoolStr(b) == IF b THEN "true" ELSE "false"

\* a handler runs from the event loop and returns to it
Commit(name, arg, w) ==
  /\ CURRENT_MOUNT_TYPE' = w.mt
  /\ CURRENT_APP_ID' = w.app
  /\ mnt' = w.mnt
  /\ dir' = w.dir
  /\ file_list' = w.fl
  /\ device' = w.dev
  /\ op' = [name |-> name, arg |-> arg]
  /\ tr' = w.tr
  /\ UNCHANGED <<dialogs, after_list_files>>

(***************************************************************************)
(* External commands.                                                      *)
(***************************************************************************)
\* fusermount -u / fusermount -uz / sudo umount -f on MOUNT_PATH.  Exit 0 is
\* possible only when there is something to unmount.
RunUnmount(w, cmd, o) ==
  LET eff == IF o = "ok" /\ w.mnt.kind = "none" THEN "fail" ELSE o
      w1 == Log(w, "run", cmd, "")
  IN [w |-> IF eff = "ok" THEN [w1 EXCEPT !.mnt = NoMount] ELSE w1,
      rc |-> IF eff = "ok" THEN 0 ELSE 1,
      raised |-> eff = "raise"]

(***************************************************************************)
(* unmount_iphone                                                          *)
(***************************************************************************)
\* a variant that forgets the listbox and the app id
unmount_finish_KeepsListing(w) ==
  LET w1 == Log(w, "check_mount", IF check_mount(w) THEN "true" ELSE "false", "")
  IN IF ~check_mount(w)
     THEN LET w2 == Show(w1, "info", "Unmounted")
          IN {Log([w2 EXCEPT !.mt = None], "write", "CURRENT_MOUNT_TYPE", None)}
     ELSE {Show(w1, "error", "Failed to unmount")}

\* lines 443-456
unmount_finish(w) ==
  LET w1 == Log(w, "check_mount", IF check_mount(w) THEN "true" ELSE "false", "")
  IN IF ~check_mount(w)
     THEN LET w2 == Show(w1, "info", "Unmounted")
              w3 == Log([w2 EXCEPT !.fl = {}], "write", "file_list", "clear")
              w4 == Log([w3 EXCEPT !.mt = None], "write", "CURRENT_MOUNT_TYPE", None)
          IN {Log([w4 EXCEPT !.app = None], "write", "CURRENT_APP_ID", None)}
     ELSE {Show(w1, "error", "Failed to unmount")}

\* a variant that runs the forced unmount whatever the first one returned
unmount_run_AlwaysForce(w) ==
  UNION {
         LET r1 == RunUnmount(w, "fusermount -u", o1)
         IN IF r1.raised THEN {Show(r1.w, "error", "Unmount error")}
            ELSE UNION {
                   LET r2 == RunUnmount(Log(r1.w, "returncode",
                                            IF r1.rc # 0 THEN "nonzero" ELSE "zero", ""),
                                        "fusermount -uz", o2)
                   IN IF r2.raised THEN {Show(r2.w, "error", "Unmount error")}
                      ELSE unmount_finish(r2.w)
                   : o2 \in RunOutcomes }
         : o1 \in RunOutcomes }

\* lines 433-460
unmount_run(w) ==
  UNION {
         LET r1 == RunUnmount(w, "fusermount -u", o1)
         IN IF r1.raised THEN {Show(r1.w, "error", "Unmount error")}
            ELSE IF r1.rc # 0
            THEN UNION {
                   LET r2 == RunUnmount(Log(r1.w, "returncode", "nonzero", ""),
                                        "fusermount -uz", o2)
                   IN IF r2.raised THEN {Show(r2.w, "error", "Unmount error")}
                      ELSE unmount_finish(r2.w)
                   : o2 \in RunOutcomes }
            ELSE unmount_finish(Log(r1.w, "returncode", "zero", ""))
         : o1 \in RunOutcomes }

\* a variant without the early return of lines 429-431
unmount_iphone_NoGuard(w) == unmount_run(w)

\* lines 427-460
unmount_iphone(w) ==
  IF ~check_mount(w)
  THEN {Show(w, "info", "Not Mounted")}
  ELSE unmount_run(w)

UnmountIphone ==
  /\ op = Idle
  /\ \E w \in unmount_iphone(World) : Commit("unmount_iphone", "", w)

(***************************************************************************)
(* Directory commands used by reset and deep clean.                        *)
(***************************************************************************)
\* what an unprivileged user can delete: the entries of a directory can be
\* removed only if the directory is writable; an empty one can be rmdir'ed
CanRemove(d) == d.exists /\ (d.perm = "rwx" \/ (d.files = {} /\ ~d.sub))

\* shutil.rmtree(MOUNT_PATH, ignore_errors=True): never raises
rmtree(w) ==
  LET w1 == Log(w, "call", "shutil.rmtree", "")
  IN IF w.mnt.kind = "none" /\ CanRemove(w.dir)
     THEN [w1 EXCEPT !.dir = NoDir]
     ELSE w1

\* rm -rf MOUNT_PATH, plain or under sudo.  Under sudo the outcome is the
\* command's own (it may be refused); a path that is a mount point is busy.
RunRemove(w, cmd, o, elevated) ==
  LET missing == w.mnt.kind = "none" /\ ~w.dir.exists
      able == w.mnt.kind = "none" /\ (IF elevated THEN o = "ok" ELSE CanRemove(w.dir))
      eff == IF o = "raise" THEN "raise"
             ELSE IF missing THEN (IF elevated THEN o ELSE "ok")
             ELSE IF able THEN "ok" ELSE "fail"
      w1 == Log(w, "run", cmd, "")
  IN [w |-> IF eff = "ok" /\ ~missing THEN [w1 EXCEPT !.dir = NoDir] ELSE w1,
      raised |-> eff = "raise"]

\* os.makedirs(MOUNT_PATH, exist_ok=True): a no-op on an existing directory,
\* FileExistsError on a mount point whose endpoint is dead
makedirs(w, o) ==
  LET w1 == Log(w, "call", "os.makedirs", "")
  IN IF path_exists(w) THEN [w |-> w1, raised |-> FALSE]
     ELSE IF w.mnt.kind # "none" \/ o = "raise" THEN [w |-> w1, raised |-> TRUE]
     ELSE [w |-> [w1 EXCEPT !.dir = FreshDir("rwx")], raised |-> FALSE]

\* mkdir -p MOUNT_PATH, plain or under sudo
RunMkdir(w, cmd, o, elevated) ==
  LET eff == IF o = "raise" THEN "raise"
             ELSE IF path_exists(w) THEN (IF elevated THEN o ELSE "ok")
             ELSE IF w.mnt.kind # "none" THEN "fail"
             ELSE o
      w1 == Log(w, "run", cmd, "")
  IN [w |-> IF eff = "ok" /\ ~path_exists(w)
            THEN [w1 EXCEPT !.dir = FreshDir(IF elevated THEN "root" ELSE "rwx")]
            ELSE w1,
      raised |-> eff = "raise"]

\* os.chmod(MOUNT_PATH, 0o755): only the owner may; on a live mount it is the
\* helper's file system that answers
chmod(w, o) ==
  LET w1 == Log(w, "call", "os.chmod", "")
  IN IF w.mnt.kind # "none"
     THEN [w |-> w1, raised |-> ~w.mnt.alive \/ o = "raise"]
     ELSE IF ~w.dir.exists \/ w.dir.perm = "root" THEN [w |-> w1, raised |-> TRUE]
     ELSE [w |-> [w1 EXCEPT !.dir.perm = "rwx"], raised |-> FALSE]

\* sudo chown uid:gid MOUNT_PATH
RunChown(w, o) ==
  LET eff == IF o = "ok" /\ ~path_exists(w) THEN "fail" ELSE o
      w1 == Log(w, "run", "sudo chown", "")
  IN [w |-> IF eff = "ok" /\ w.mnt.kind = "none" /\ w.dir.perm = "root"
            THEN [w1 EXCEPT !.dir.perm = "rwx"] ELSE w1,
      raised |-> eff = "raise"]

\* sudo chmod 755 MOUNT_PATH
RunChmod(w, o) ==
  LET eff == IF o = "ok" /\ ~path_exists(w) THEN "fail" ELSE o
      w1 == Log(w, "run", "sudo chmod", "")
  IN [w |-> IF eff = "ok" /\ w.mnt.kind = "none" /\ w.dir.perm = "r-x"
            THEN [w1 EXCEPT !.dir.perm = "rwx"] ELSE w1,
      raised |-> eff = "raise"]

\* os.access(MOUNT_PATH, os.W_OK); on a live mount the helper's file system
\* answers, either way
access_W(w) ==
  IF w.mnt.kind = "none" THEN {w.dir.exists /\ w.dir.perm = "rwx"}
  ELSE IF w.mnt.alive THEN BOOLEAN ELSE {FALSE}

(***************************************************************************)
(* reset_mount_point: set of [w, success]                                  *)
(***************************************************************************)
\* lines 232-242: the three unmount commands share one try block
reset_unmount(w) ==
  UNION {
    LET r1 == RunUnmount(w, "fusermount -u", o1)
    IN IF r1.raised THEN {r1.w}
       ELSE UNION {
         LET r2 == RunUnmount(r1.w, "fusermount -uz", o2)
         IN IF r2.raised THEN {r2.w}
            ELSE {RunUnmount(r2.w, "sudo umount -f", o3).w : o3 \in RunOutcomes}
         : o2 \in RunOutcomes }
    : o1 \in RunOutcomes }

\* lines 244-262
reset_remove(w) ==
  IF check_mount(w) THEN {w}
  ELSE LET w1 == IF path_exists(w) THEN rmtree(w) ELSE w
       IN UNION {
            LET r == RunRemove(w1, "rm -rf", o, FALSE)
            IN IF r.raised THEN {r.w}
               ELSE IF path_exists(r.w)
               THEN {RunRemove(r.w, "sudo rm -rf", o2, TRUE).w : o2 \in RunOutcomes}
               ELSE {r.w}
            : o \in {"ok", "raise"} }

\* lines 281-283: the except branch of the creation block
CreateFailed(w) ==
  [w |-> Log(w, "debug", "Failed to create mount point directory", ""),
   success |-> FALSE]

\* a variant that reports success without setting the permissions
reset_create_NoChmod(w) ==
  UNION {
    LET r == makedirs(w, o)
    IN IF r.raised THEN {CreateFailed(r.w)}
       ELSE {[w |-> r.w, success |-> path_exists(r.w)]}
    : o \in {"ok", "raise"} }

\* lines 264-286
reset_create(w) ==
  UNION {
    LET r == makedirs(w, o)
    IN IF r.raised THEN {CreateFailed(r.w)}
       ELSE IF path_exists(r.w)
       THEN {LET c == chmod(r.w, o2)
             IN IF c.raised THEN CreateFailed(c.w)
                ELSE [w |-> c.w, success |-> TRUE] : o2 \in {"ok", "raise"}}
       ELSE {LET k == RunMkdir(r.w, "mkdir -p", o2, FALSE)
             IN IF k.raised THEN CreateFailed(k.w)
                ELSE [w |-> k.w, success |-> path_exists(k.w)]
             : o2 \in RunOutcomes}
    : o \in {"ok", "raise"} }

reset_mount_point(w) ==
  UNION { UNION { reset_create(w2) : w2 \in reset_remove(w1) }
          : w1 \in reset_unmount(w) }

\* what a caller finds at MOUNT_PATH when a call returns
DirFacts(w) ==
  (IF path_exists(w) THEN {"exists"} ELSE {})
  \cup (IF w.dir.exists /\ w.dir.files = {} /\ ~w.dir.sub THEN {"empty"} ELSE {})
  \cup (IF w.mnt.kind = "none" /\ w.dir.exists /\ w.dir.perm = "rwx"
        THEN {"writable"} ELSE {})
  \cup (IF w.mnt.kind # "none" THEN {"mounted"} ELSE {})

\* the return of a call made on its own, with what the caller finds
Return(w, name, ret) == LogL(w, "return", name, BoolStr(ret), DirFacts(w))

\* reset_mount_point() called on its own; what it returned is op.arg
ResetMountPoint ==
  /\ op = Idle
  /\ \E r \in reset_mount_point(World) :
       Commit("reset_mount_point", BoolStr(r.success),
              Return(r.w, "reset_mount_point", r.success))

\* reset_mount_point() called twice in a row
reset_twice(w) ==
  UNION { { Return(r2.w, "reset_mount_point", r2.success)
            : r2 \in reset_mount_point(Return(r1.w, "reset_mount_point", r1.success)) }
          : r1 \in reset_mount_point(w) }

ResetTwice ==
  /\ op = Idle
  /\ \E w \in reset_twice(World) : Commit("reset_twice", "", w)

(***************************************************************************)
(* deep_clean_mount_point: set of [w, success]                             *)
(***************************************************************************)
DeepCleanError(w) ==
  [w |-> Show(w, "error", "Deep Clean Error"), success |-> FALSE]

\* a variant that does not ask whether the directory is writable
deep_clean_finish_ExistsOnly(w) ==
  { IF path_exists(w)
    THEN [w |-> Show(w, "info", "Deep Clean"), success |-> TRUE]
    ELSE [w |-> Show(w, "error", "Deep Clean Failed"), success |-> FALSE] }

\* lines 1202-1216
deep_clean_finish(w) ==
  { IF path_exists(w) /\ a
    THEN [w |-> Show(w, "info", "Deep Clean"), success |-> TRUE]
    ELSE [w |-> Show(w, "error", "Deep Clean Failed"), success |-> FALSE]
    : a \in access_W(w) }

\* lines 1197-1200, the commands of the list from the i-th on
deep_clean_chmod(w) ==
  UNION { LET r == RunChmod(w, o)
          IN IF r.raised THEN {DeepCleanError(r.w)} ELSE deep_clean_finish(r.w)
          : o \in RunOutcomes }

deep_clean_chown(w) ==
  UNION { LET r == RunChown(w, o)
          IN IF r.raised THEN {DeepCleanError(r.w)} ELSE deep_clean_chmod(r.w)
          : o \in RunOutcomes }

deep_clean_mkdir(w) ==
  UNION { LET r == RunMkdir(w, "sudo mkdir -p", o, TRUE)
          IN IF r.raised THEN {DeepCleanError(r.w)} ELSE deep_clean_chown(r.w)
          : o \in RunOutcomes }

deep_clean_rm(w) ==
  UNION { LET r == RunRemove(w, "sudo rm -rf", o, TRUE)
          IN IF r.raised THEN {DeepCleanError(r.w)} ELSE deep_clean_mkdir(r.w)
          : o \in RunOutcomes }

deep_clean_umount(w) ==
  UNION { LET r == RunUnmount(w, "sudo umount -f", o)
          IN IF r.raised THEN {DeepCleanError(r.w)} ELSE deep_clean_rm(r.w)
          : o \in RunOutcomes }

deep_clean_mount_point(w) ==
  UNION { LET r == RunUnmount(w, "fusermount -u", o)
          IN IF r.raised THEN {DeepCleanError(r.w)} ELSE deep_clean_umount(r.w)
          : o \in RunOutcomes }

DeepCleanMountPoint ==
  /\ op = Idle
  /\ \E r \in deep_clean_mount_point(World) :
       Commit("deep_clean_mount_point", BoolStr(r.success),
              Return(r.w, "deep_clean_mount_point", r.success))

(***************************************************************************)
(* reset_mount_point_ui                                                    *)
(***************************************************************************)
\* lines 1229-1240
reset_ui_run(w) ==
  UNION {
    IF r.success THEN {Show(r.w, "info", "Success")}
    ELSE {LET w1 == Log(r.w, "ask", "Reset Failed", "no")
          IN Show(w1, "error", "Failed to reset mount point")}
         \cup {d.w : d \in deep_clean_mount_point(Log(r.w, "ask", "Reset Failed", "yes"))}
    : r \in reset_mount_point(w) }

reset_mount_point_ui(w) ==
  IF check_mount(w)
  THEN {Log(w, "ask", "Confirmation", "no")}
       \cup reset_ui_run(Log(w, "ask", "Confirmation", "yes"))
  ELSE reset_ui_run(w)

ResetMountPointUi ==
  /\ op = Idle
  /\ \E w \in reset_mount_point_ui(World) : Commit("reset_mount_point_ui", "", w)

(***************************************************************************)
(* list_files, get_mount_type, is_documents_mount                          *)
(***************************************************************************)
\* str.startswith and the `in` of two strings
StartsWith(s, p) == Len(s) >= Len(p) /\ SubSeq(s, 1, Len(p)) = p

Contains(s, p) ==
  \E i \in 1..(Len(s) + 1) :
    i + Len(p) - 1 <= Len(s) /\ SubSeq(s, i, i + Len(p) - 1) = p

\* str.rstrip('/')
RECURSIVE RStripSlash(_)
RStripSlash(s) ==
  IF Len(s) > 0 /\ SubSeq(s, Len(s), Len(s)) = "/"
  THEN RStripSlash(SubSeq(s, 1, Len(s) - 1))
  ELSE s

\* position of the last "/" of a relative path, 0 if it has none
LastSlash(s) ==
  LET at == {i \in 1..Len(s) : SubSeq(s, i, i) = "/"}
  IN IF at = {} THEN 0 ELSE CHOOSE i \in at : \A k \in at : k <= i

\* os.path.basename, and the directory part ("" stands for '.')
Basename(s) == SubSeq(s, LastSlash(s) + 1, Len(s))

Dirname(s) == SubSeq(s, 1, LastSlash(s) - 1)

\* lines 472-531
system_patterns ==
  { ".lock", ".DS_Store", ".ithmb", ".plist", ".albummetadata", ".memorymetadata",
    ".facemetadata", ".log", ".sqlite", ".sqlitedb", ".sqlite-shm", ".sqlite-wal",
    ".db", ".dat", ".tmp", ".pb", ".cache", ".ptl", ".crashreport", ".btree",
    ".strings", ".itc", ".itdb", ".itl", ".bak", ".mdbackup", ".mddata", ".thumb",
    ".journal", ".synctoken", ".artwork", ".bat",
    "Thumbs.db", "thumbs", "iTunesMetadata", "iTunesArtwork", "iTunesPrefs",
    "iTunesTouch", "iTunesSync", "CoverFlow", "Manifest.", "SyncData", "Recordings",
    "PhotoData", ".config",
    ".Trashes", "__MACOSX", ".fseventsd", ".metadata_", ".com.apple", "._",
    ".DocumentRevisions-", "DCIM/.MISC" }

\* lines 534-590; no comma follows 'MotionAssets' at line 545, so Python
\* joins it with the next literal (line 548) into one entry
system_directories ==
  { "PhotoData/Catches", "PhotoData/AlbumsMetadata", "PhotoData/Mutations",
    "PhotoData/Sync", "PhotoData/Thumbnails", "PhotoData/Videos",
    "PhotoData/CPLAssets", "PhotoData/Metadata", "MediaAnalysis",
    "MotionAssets" \o "iTunes_Control/",
    "iTunes-control", "iTunesControl", "Books/", "Podcasts/", "Recordings/",
    "Purchases/",
    ".Spotlight-V100", ".DocumentRevisions-V100", ".TemporaryItems", ".Trashes",
    ".fseventsd", ".Trash", ".com.apple",
    "DCIM/.MISC", "DCIM/.thumbnails", "DCIM/.TRACES", "System/",
    "private/var/mobile/Library/Caches", "private/var/mobile/Library/Logs",
    "private/var/mobile/Library/Preferences", "private/var/root",
    "private/var/Keychains", "private/var/stash", "private/etc", "private/tmp",
    "System/Library", "System/Library/Lockdown", "System/Library/Caches",
    "System/Library/LaunchDaemons", "private/var/MobileDevice",
    "private/var/MobileDevice/ProvisioningProfiles", "private/var/containers",
    "private/var/db", "private/var/keybags" }

\* a variant without the test of the base name
is_system_file_NoDotRule(filename) ==
  IF \E directory \in system_directories :
       LET normalized_dir == RStripSlash(directory)
       IN StartsWith(filename, normalized_dir \o "/") \/ filename = normalized_dir
  THEN TRUE
  ELSE \E pattern \in system_patterns : Contains(filename, pattern)

\* lines 592-607
is_system_file(filename) ==
  IF \E directory \in system_directories :
       LET normalized_dir == RStripSlash(directory)
       IN StartsWith(filename, normalized_dir \o "/") \/ filename = normalized_dir
  THEN TRUE
  ELSE IF \E pattern \in system_patterns : Contains(filename, pattern)
  THEN TRUE
  ELSE StartsWith(Basename(filename), ".")

\* the strings is_system_file is called with: a directory part and a base name
DirParts ==
  {"", "DCIM", "Books", "Booksx", ".Trashes", "MotionAssets", "iTunes_Control",
   "private/etc", "System", "a.lock", "Music"}

BaseParts ==
  {"", "file1", ".hidden", "IMG_0001.JPG", "x.plist", "thumbs", "data.db",
   "Recordings", "Books", "song.mp3"}

Filenames ==
  {IF d = "" THEN b ELSE d \o "/" \o b : d \in DirParts, b \in BaseParts}

\* is_system_file(filename) called on its own; the value returned is the
\* last event
IsSystemFileCall ==
  /\ op = Idle
  /\ \E filename \in Filenames :
       Commit("is_system_file", filename,
              Log(World, "return", "is_system_file", BoolStr(is_system_file(filename))))

\* lines 632-677
system_dirs_to_skip ==
  { "PhotoData/Catches", "PhotoData/AlbumsMetadata", "PhotoData/Mutations",
    "PhotoData/Sync", "PhotoData/Thumbnails", "PhotoData/Videos",
    "PhotoData/CPLAssets", "PhotoData/Metadata", "MediaAnalysis", "MotionAssets",
    "iTunes_Control/", "iTunes-control", "iTunesControl", "Books/", "Podcasts/",
    "Recordings/", "Purchases/",
    ".Spotlight-V100", ".DocumentRevisions-V100", ".TemporaryItems", ".Trashes",
    ".fseventsd", ".Trash", ".com.apple",
    "DCIM/.MISC", "DCIM/.thumbnails", "DCIM/.TRACES", "System/",
    "private/var/mobile/Library/Caches", "private/var/mobile/Library/Logs",
    "private/var/mobile/Library/Preferences", "private/var/root",
    "private/var/Keychains", "private/var/stash", "private/etc", "private/tmp" }

\* lines 680-682
normalized_dirs == {RStripSlash(directory) : directory \in system_dirs_to_skip}

\* the test of lines 691 and 701 on a relative directory path
SkipDir(d) ==
  \E skip_dir \in normalized_dirs : d = skip_dir \/ StartsWith(d, skip_dir \o "/")

\* the files a device can hold, in the order os.walk meets them: the files of
\* the root, then directory by directory
WalkOrder ==
  << "notes.txt", "a.jpg", ".hidden",
     "DCIM/IMG_0001.JPG", "DCIM/IMG_0002.JPG", "DCIM/IMG_0003.JPG",
     ".Trashes/file1", ".cache/db.sqlite", "Books/novel.epub",
     "MotionAssets/clip.mov" >>

Paths == {WalkOrder[i] : i \in DOMAIN WalkOrder}

\* the directories of those files; "" is the root
Dirs == {Dirname(f) : f \in Paths}

\* the tests of list_files and is_system_file on each file and directory a
\* device can hold
IsSystemFile == [f \in Paths |-> is_system_file(f)]

SkipDirOf == [d \in Dirs |-> SkipDir(d)]

\* lines 714-724: what the loop leaves out of a media listing
HiddenInMedia ==
  [f \in Paths |->
     \/ StartsWith(Basename(f), ".") \/ Contains(f, ".cache") \/ Contains(f, ".plist")
     \/ IsSystemFile[f]]

\* the files of a set, as a device holds them
DeviceOf(S) == SelectSeq(WalkOrder, LAMBDA f : f \in S)

\* the device attached while the lifecycle operations are exercised
AttachedDevice ==
  DeviceOf({"notes.txt", "DCIM/IMG_0001.JPG", ".Trashes/file1", ".cache/db.sqlite"})

\* lines 618 and 620, scaled: the source has batch_size = 100 and
\* max_files = 5000
batch_size == 2

max_files == 4

HeaderLine == "--- App Documents Folder ---"

\* lines 627-629
HeaderLines ==
  {HeaderLine, "Files saved here will be available in the app on your iPhone", ""}

\* lines 761-763
EmptyLines ==
  {"This folder is empty.", "Use the 'Upload File to iPhone' button to upload files."}

LimitLine == "--- Only showing max_files of the files ---"

\* lines 766-769
LimitLines == {"", LimitLine, "Use the search feature to find specific files"}

\* the line of `mount` that holds MOUNT_PATH, or None
get_mount_type(w) == IF w.mnt.kind = "none" THEN None ELSE "line"

\* "documents" in line
HasDocumentsMarker(w) == w.mnt.kind # "none" /\ w.mnt.marker

\* lines 687-704: os.walk reaches a directory and handles its files only if
\* no directory on the way was taken out of dirs (in media mode) or skipped
\* when visited (in any mode); all directories of the model lie in the root
Walked(mt, d) ==
  IF d = "" THEN TRUE
  ELSE ~(mt = "media" /\ SkipDirOf[d]) /\ ~SkipDirOf[d]

Range(q) == {q[i] : i \in DOMAIN q}

\* file_list.insert(END, item) for each item of a batch, in order
Insert(w, batch) ==
  [w EXCEPT !.fl = @ \cup Range(batch),
            !.tr = @ \o [k \in 1..Len(batch) |->
                           [e |-> "insert", a |-> batch[k], b |-> "", l |-> {},
                            m |-> check_mount(w)]]]

\* a variant that keeps the batch after inserting it
list_batch_KeepsBatch(st) ==
  IF st.file_count > max_files
  THEN [st EXCEPT !.w = Log(@, "limit", "reached_limit", ""),
                  !.reached_limit = TRUE,
                  !.remaining_files = st.current_batch]
  ELSE [st EXCEPT !.w = Log(Insert(@, st.current_batch), "update_idletasks", "", "")]

\* lines 731-745: the batch is full
list_batch(st) ==
  IF st.file_count > max_files
  THEN [st EXCEPT !.w = Log(@, "limit", "reached_limit", ""),
                  !.reached_limit = TRUE,
                  !.remaining_files = st.current_batch]
  ELSE [st EXCEPT !.w = Log(Insert(@, st.current_batch), "update_idletasks", "", ""),
                  !.current_batch = <<>>]

\* a variant whose handler leaves the walk
list_resume_Abort(dev, i) == Len(dev) + 1

\* lines 751-753: after an error at the i-th file the walk goes on with the
\* first file of the next directory
list_resume(dev, i) ==
  LET later == {j \in (i + 1)..Len(dev) : Dirname(dev[j]) # Dirname(dev[i])}
  IN IF later = {} THEN Len(dev) + 1 ELSE CHOOSE j \in later : \A k \in later : j <= k

\* lines 687-753: the loop from the i-th file of the walk on; err is the
\* position of the file at which the body raises, 0 if it does not
RECURSIVE list_walk(_, _, _, _, _)
list_walk(mt, dev, i, err, st) ==
  IF i > Len(dev) THEN st
  ELSE LET relative_path == dev[i]
       IN IF ~Walked(mt, Dirname(relative_path))
          THEN list_walk(mt, dev, i + 1, err, st)
          ELSE IF i = err
          THEN list_walk(mt, dev, list_resume(dev, i), err,
                         [st EXCEPT !.w = LogL(@, "except", "Error processing directory",
                                               Dirname(relative_path),
                                               {relative_path})])
          ELSE IF mt = "media" /\ HiddenInMedia[relative_path]
          THEN list_walk(mt, dev, i + 1, err,
                         [st EXCEPT !.skipped_count = @ + 1,
                                    !.w = Log(@, "skip", relative_path, "")])
          ELSE LET st1 == [st EXCEPT !.current_batch = Append(@, relative_path),
                                     !.file_count = @ + 1,
                                     !.w = Log(@, "append", relative_path, "")]
               IN IF Len(st1.current_batch) >= batch_size
                  THEN LET st2 == list_batch(st1)
                       IN IF st2.reached_limit THEN st2
                          ELSE list_walk(mt, dev, i + 1, err, st2)
                  ELSE list_walk(mt, dev, i + 1, err, st1)

\* lines 616-621, 685
ListStart(w) ==
  [w |-> w, current_batch |-> <<>>, file_count |-> 0, skipped_count |-> 0,
   reached_limit |-> FALSE, remaining_files |-> <<>>]

\* lines 755-758
list_flush(st) ==
  IF Len(st.remaining_files) < max_files
  THEN [st EXCEPT !.w = Insert(@, st.current_batch)]
  ELSE st

\* lines 623-769: the listbox after the header, the walk, the last batch and
\* the closing lines
list_lines(w, err) ==
  LET docs == HasDocumentsMarker(w)
      w1 == IF docs THEN [w EXCEPT !.fl = @ \cup HeaderLines] ELSE w
      st == list_flush(list_walk(w.mt, w.dev, 1, err, ListStart(w1)))
  IN [st.w EXCEPT !.fl = @ \cup (IF st.file_count = 0 /\ docs THEN EmptyLines ELSE {})
                            \cup (IF st.reached_limit THEN LimitLines ELSE {})]

\* lines 609-791
list_files(w) ==
  LET w1 == Log([w EXCEPT !.fl = {}], "write", "file_list", "clear")
  IN IF check_mount(w)
     THEN {Log(list_lines(w1, err), "write", "file_list", "fill")
           : err \in 0..Len(w.dev)}
     ELSE {Show(w1, "error", "iPhone not mounted")}

ListFiles ==
  /\ op = Idle
  /\ \E w \in list_files(World) : Commit("list_files", "", w)

\* a variant that scans the mount table but never assigns the mode
is_documents_mount_NoUpdate(w) ==
  IF w.mt = "documents"
  THEN [w |-> Log(w, "is_documents_mount", "true", ""), ret |-> TRUE]
  ELSE IF get_mount_type(w) = None
  THEN [w |-> Log(w, "is_documents_mount", "false", ""), ret |-> FALSE]
  ELSE [w |-> Log(w, "is_documents_mount", BoolStr(HasDocumentsMarker(w)), ""),
        ret |-> HasDocumentsMarker(w)]

\* lines 806-833: [w, ret]; the value returned is the last event
is_documents_mount(w) ==
  IF w.mt = "documents"
  THEN [w |-> Log(w, "is_documents_mount", "true", ""), ret |-> TRUE]
  ELSE IF get_mount_type(w) = None
  THEN [w |-> Log(w, "is_documents_mount", "false", ""), ret |-> FALSE]
  ELSE LET is_docs == HasDocumentsMarker(w)
           t == IF is_docs THEN "documents"
                ELSE IF check_mount(w) THEN "media" ELSE None
           w1 == Log([w EXCEPT !.mt = t], "write", "CURRENT_MOUNT_TYPE", t)
       IN [w |-> Log(w1, "is_documents_mount", BoolStr(is_docs), ""),
           ret |-> is_docs]

\* is_documents_mount() called on its own
IsDocumentsMount ==
  /\ op = Idle
  /\ LET r == is_documents_mount(World)
     IN Commit("is_documents_mount", BoolStr(r.ret), r.w)

(***************************************************************************)
(* upload_file                                                             *)
(***************************************************************************)
\* how the copy to MOUNT_PATH can end: without an exception, or with one of
\* a class, whose text (the errno message and the path of the file) holds
\* "Function not implemented" or not
WriteOutcomes ==
  {[class |-> "none", phrase |-> FALSE]}
  \cup [class : {"PermissionError", "OSError"}, phrase : BOOLEAN]

\* a variant that looks at the text of the exception before its class
upload_write_PhraseFirst(w, o) ==
  LET w1 == Log(w, "open", "dest", "wb")
      w2 == Log(w1, "raise", o.class, BoolStr(o.phrase))
  IN IF o.class = "none" THEN list_files(Show(w1, "info", "Uploaded"))
     ELSE IF o.phrase THEN {Show(Log(w2, "remove", "dest", ""), "error", "iOS Limitation")}
     ELSE IF o.class = "PermissionError" THEN {Show(w2, "error", "Permission Error")}
     ELSE {Show(Log(w2, "remove", "dest", ""), "error", "Upload error")}

\* lines 954-1044
upload_write(w, o) ==
  LET w1 == Log(w, "open", "dest", "wb")
      w2 == Log(w1, "raise", o.class, BoolStr(o.phrase))
  IN IF o.class = "none" THEN list_files(Show(w1, "info", "Uploaded"))
     ELSE IF o.class = "PermissionError" THEN {Show(w2, "error", "Permission Error")}
     ELSE LET w3 == Log(w2, "remove", "dest", "")
          IN IF o.phrase THEN {Show(w3, "error", "iOS Limitation")}
             ELSE {Show(w3, "error", "Upload error")}

\* lines 927-1044
upload_file(w) ==
  IF ~check_mount(w) THEN {Show(w, "error", "iPhone not mounted")}
  ELSE LET r == is_documents_mount(w)
       IN IF ~r.ret THEN {Show(r.w, "info", "Documents Mode Required")}
          ELSE {Log(r.w, "ask", "askopenfilename", "cancel")}
               \cup UNION {upload_write(Log(r.w, "ask", "askopenfilename", "file"), o)
                           : o \in WriteOutcomes}

UploadFile ==
  /\ op = Idle
  /\ \E w \in upload_file(World) : Commit("upload_file", "", w)

(***************************************************************************)
(* mount_iphone                                                            *)
(***************************************************************************)
\* the lists ifuse --list-apps can yield (get_app_list)
AppLists == {{}, {"com.a"}, {"com.a", "com.b"}, {"", "com.b"}}

\* what the helper can leave in stderr: the phrases the handler looks for,
\* and whether the bytes decode as UTF-8
Stderrs == [phrases : SUBSET {"No device found", "Permission denied"}, utf8 : BOOLEAN]

\* lines 417-421
MountException(w) == Show(w, "error", "MountException")

\* a variant that looks for "Permission denied" first
mount_classify_PermFirst(w0, stderr) ==
  LET w == LogL(w0, "stderr", IF stderr.utf8 THEN "utf8" ELSE "binary", "",
                stderr.phrases)
  IN
  IF ~stderr.utf8 THEN MountException(w)
  ELSE IF "Permission denied" \in stderr.phrases THEN Show(w, "error", "PermissionDenied")
  ELSE IF "No device found" \in stderr.phrases THEN Show(w, "error", "NoDeviceFound")
  ELSE Show(w, "error", "HelperGenericFailure")

\* lines 402-416: result.stderr.decode('utf-8') raises on bytes that are not
\* UTF-8; an empty stderr reads "Unknown error"
mount_classify(w0, stderr) ==
  LET w == LogL(w0, "stderr", IF stderr.utf8 THEN "utf8" ELSE "binary", "",
                stderr.phrases)
  IN
  IF ~stderr.utf8 THEN MountException(w)
  ELSE IF "No device found" \in stderr.phrases THEN Show(w, "error", "NoDeviceFound")
  ELSE IF "Permission denied" \in stderr.phrases THEN Show(w, "error", "PermissionDenied")
  ELSE Show(w, "error", "HelperGenericFailure")

\* lines 389-416
mount_verify(w, documents_mode, stderr) ==
  LET w1 == Log(w, "check_mount", IF check_mount(w) THEN "true" ELSE "false", "")
      t == IF documents_mode THEN "documents" ELSE "media"
  IN IF check_mount(w)
     THEN list_files(Show(Log([w1 EXCEPT !.mt = t], "write", "CURRENT_MOUNT_TYPE", t),
                          "info", "Mounted"))
     ELSE {mount_classify(w1, stderr)}

\* ifuse mounts only on an existing directory the user may write to that is
\* not a mount point already
CanMount(w) == w.mnt.kind = "none" /\ w.dir.exists /\ w.dir.perm = "rwx"

\* lines 349, 367-387: ifuse --udid udid [--documents app_id] -o nonempty MOUNT_PATH
mount_run(w, documents_mode, udid, app_id) ==
  LET w1 == Log(w, "ifuse", udid, app_id)
      kind == IF app_id = None THEN "media" ELSE "documents"
  IN {MountException(w1)}
     \cup UNION {mount_verify(w1, documents_mode, e) : e \in Stderrs}
     \cup (IF CanMount(w)
           THEN UNION {mount_verify([w1 EXCEPT !.mnt = [kind |-> kind, alive |-> TRUE,
                                                         marker |-> k]],
                                    documents_mode,
                                    [phrases |-> {}, utf8 |-> TRUE])
                       : k \in BOOLEAN}
           ELSE {})

\* lines 133-225: the list offered and what select_app_dialog returns
select_app_dialog(w) ==
  UNION {
    LET w1 == LogL(w, "get_app_list", "", "", apps)
    IN IF apps = {}
       THEN {[w |-> Show(w1, "error", "No apps with file sharing found"), ret |-> None]}
       ELSE {[w |-> Log(w1, "select", sel, ""), ret |-> sel] : sel \in apps \cup {None}}
    : apps \in AppLists }

\* a variant that goes on to the helper when the dialog returned nothing
mount_select_NoCancelCheck(w, udid) ==
  UNION {
    mount_run(Log([r.w EXCEPT !.app = r.ret], "write", "CURRENT_APP_ID", r.ret),
              TRUE, udid, r.ret)
    : r \in select_app_dialog(w) }

\* a variant that mounts the first app it knows, not the one selected
mount_select_WrongApp(w, udid) ==
  UNION {
    IF r.ret = None \/ r.ret = ""
    THEN {Log(r.w, "status", "App selection canceled", "")}
    ELSE mount_run(Log([r.w EXCEPT !.app = r.ret], "write", "CURRENT_APP_ID", r.ret),
                   TRUE, udid, "com.a")
    : r \in select_app_dialog(w) }

\* lines 352-371
mount_select(w, udid) ==
  UNION {
    IF r.ret = None \/ r.ret = ""
    THEN {Log(r.w, "status", "App selection canceled", "")}
    ELSE mount_run(Log([r.w EXCEPT !.app = r.ret], "write", "CURRENT_APP_ID", r.ret),
                   TRUE, udid, r.ret)
    : r \in select_app_dialog(w) }

\* lines 76-85
get_device_udid == Udids \cup {None}

\* a variant that shows the error but does not return
mount_probe_NoReturn(w, documents_mode) ==
  UNION {
    LET w1 == Log(w, "get_device_udid", udid, "")
        w2 == IF udid = None THEN Show(w1, "error", "NoDeviceFound") ELSE w1
    IN IF documents_mode THEN mount_select(w2, udid)
       ELSE mount_run(w2, FALSE, udid, None)
    : udid \in get_device_udid }

\* lines 338-346
mount_probe(w, documents_mode) ==
  UNION {
    LET w1 == Log(w, "get_device_udid", udid, "")
    IN IF udid = None THEN {Show(w1, "error", "NoDeviceFound")}
       ELSE IF documents_mode THEN mount_select(w1, udid)
       ELSE mount_run(w1, FALSE, udid, None)
    : udid \in get_device_udid }

\* lines 326-336: os.listdir, then os.remove of each regular file; the first
\* failure ends the loop
mount_clean(w) ==
  IF ~path_exists(w) THEN Log(w, "call", "os.listdir", "raise")
  ELSE IF check_mount(w) THEN Log(w, "call", "os.remove", "device")
  ELSE IF w.dir.files = {} THEN Log(w, "call", "os.listdir", "")
  ELSE IF w.dir.perm = "rwx"
  THEN Log([w EXCEPT !.dir.files = {}], "call", "os.remove", "")
  ELSE Log(w, "call", "os.remove", "raise")

\* lines 322-324
mount_reset_tracking(w) ==
  Log(Log([w EXCEPT !.mt = None, !.app = None], "write", "CURRENT_MOUNT_TYPE", None),
      "write", "CURRENT_APP_ID", None)

\* a variant that leaves the two globals as they were
mount_try_NoReset(w, documents_mode) ==
  UNION {
    LET r == RunUnmount(w, "fusermount -u", o)
    IN IF r.raised THEN {MountException(r.w)}
       ELSE mount_probe(mount_clean(r.w), documents_mode)
    : o \in RunOutcomes }

\* lines 317-421
mount_try(w, documents_mode) ==
  UNION {
    LET r == RunUnmount(w, "fusermount -u", o)
    IN IF r.raised THEN {MountException(r.w)}
       ELSE mount_probe(mount_clean(mount_reset_tracking(r.w)), documents_mode)
    : o \in RunOutcomes }

\* lines 306-315
mount_create(w, documents_mode) ==
  UNION {
    LET r == makedirs(w, o)
    IN IF ~r.raised THEN mount_try(r.w, documents_mode)
       ELSE UNION {
              IF ~x.success
              THEN {Show(x.w, "error", "Failed to create mount directory")}
              ELSE mount_try(x.w, documents_mode)
              : x \in reset_mount_point(r.w) }
    : o \in {"ok", "raise"} }

\* a variant without the already-mounted return of lines 299-303
mount_iphone_NoMountedCheck(w, documents_mode) ==
  IF path_exists(w) THEN mount_try(w, documents_mode)
  ELSE mount_create(w, documents_mode)

\* lines 288-421
mount_iphone(w, documents_mode) ==
  IF path_exists(w)
  THEN IF check_mount(w)
       THEN list_files(Show(w, "info", "Already Mounted"))
       ELSE mount_try(w, documents_mode)
  ELSE mount_create(w, documents_mode)

MountIphone ==
  /\ op = Idle
  /\ \E w \in mount_iphone(World, FALSE) : Commit("mount_iphone", "media", w)

MountIphoneDocuments ==
  /\ op = Idle
  /\ \E w \in mount_iphone(World, TRUE) : Commit("mount_iphone", "documents", w)

(***************************************************************************)
(* Specification.                                                          *)
(***************************************************************************)
Init ==
  /\ CURRENT_MOUNT_TYPE = None
  /\ CURRENT_APP_ID = None
  /\ mnt \in MountEntries
  /\ dir \in DirStates
  /\ (mnt.kind # "none" => dir.exists)
  /\ file_list = {}
  /\ device = AttachedDevice
  /\ op = Idle
  /\ tr = <<>>
  /\ dialogs = <<>>
  /\ after_list_files = FALSE

\* root.mainloop() takes control back: the returned handler's events are
\* history, not program state
Mainloop ==
  /\ op # Idle
  /\ op' = Idle
  /\ tr' = <<>>
  /\ UNCHANGED <<CURRENT_MOUNT_TYPE, CURRENT_APP_ID, mnt, dir, file_list, device,
               dialogs, after_list_files>>

Next ==
  \/ MountIphone
  \/ MountIphoneDocuments
  \/ UnmountIphone
  \/ ListFiles
  \/ UploadFile
  \/ ResetMountPointUi
  \/ DeepCleanMountPoint
  \/ Mainloop

Spec == Init /\ [][Next]_vars

(***************************************************************************)
(* The functions called on their own, from any condition another program   *)
(* or an earlier run can have left: the globals may not agree with the     *)
(* mount table.                                                            *)
(***************************************************************************)
InitCalls ==
  /\ CURRENT_MOUNT_TYPE \in {None, "media", "documents"}
  /\ CURRENT_APP_ID \in {None, "com.a"}
  /\ (CURRENT_APP_ID # None => CURRENT_MOUNT_TYPE = "documents")
  /\ mnt \in MountEntries
  /\ dir \in DirStates
  /\ (mnt.kind # "none" => dir.exists)
  /\ file_list = {}
  /\ device = AttachedDevice
  /\ op = Idle
  /\ tr = <<>>
  /\ dialogs = <<>>
  /\ after_list_files = FALSE

NextCalls ==
  \/ IsDocumentsMount
  \/ ResetMountPoint
  \/ ResetTwice
  \/ DeepCleanMountPoint
  \/ ListFiles
  \/ UploadFile
  \/ Mainloop

SpecCalls == InitCalls /\ [][NextCalls]_vars

(***************************************************************************)
(* list_files over every device, with MOUNT_PATH mounted.                  *)
(***************************************************************************)
InitEnum ==
  /\ CURRENT_MOUNT_TYPE \in {None, "media", "documents"}
  /\ CURRENT_APP_ID = None
  /\ mnt \in [kind : {"media", "documents"}, alive : {TRUE}, marker : BOOLEAN]
  /\ dir = FreshDir("rwx")
  /\ file_list = {}
  /\ device \in {DeviceOf(S) : S \in SUBSET Paths}
  /\ op = Idle
  /\ tr = <<>>
  /\ dialogs = <<>>
  /\ after_list_files = FALSE

NextEnum ==
  \/ ListFiles
  \/ Mainloop

SpecEnum == InitEnum /\ [][NextEnum]_vars

(***************************************************************************)
(* is_system_file over its inputs.                                         *)
(***************************************************************************)
InitClassify ==
  /\ CURRENT_MOUNT_TYPE = None
  /\ CURRENT_APP_ID = None
  /\ mnt = NoMount
  /\ dir = NoDir
  /\ file_list = {}
  /\ device = <<>>
  /\ op = Idle
  /\ tr = <<>>
  /\ dialogs = <<>>
  /\ after_list_files = FALSE

NextClassify ==
  \/ IsSystemFileCall
  \/ Mainloop

SpecClassify == InitClassify /\ [][NextClassify]_vars

(***************************************************************************)
(* get_device_udid and get_app_list over the output of their helpers.      *)
(***************************************************************************)
\* str.strip(): the characters Python takes for white space
Whitespace == {" ", "\t", "\n", "\r"}

IsSpace(c) == c \in Whitespace

\* str.strip(chars): s without the characters of its two ends that are in chars
StripOf(s, chars) ==
  LET keep == {i \in 1..Len(s) : SubSeq(s, i, i) \notin chars}
  IN IF keep = {} THEN ""
     ELSE SubSeq(s, CHOOSE i \in keep : \A k \in keep : i <= k,
                    CHOOSE i \in keep : \A k \in keep : k <= i)

Strip(s) == StripOf(s, Whitespace)

\* str.strip('"')
StripQuotes(s) == StripOf(s, {"\""})

\* str.split(sep, maxsplit): at most maxsplit cuts, at the first occurrences
\* of sep
SplitMax(s, sep, maxsplit) ==
  LET at == {i \in 1..Len(s) : SubSeq(s, i, i) = sep}
      n == IF Cardinality(at) < maxsplit THEN Cardinality(at) ELSE maxsplit
      cut(k) == IF k = 0 THEN 0
                ELSE CHOOSE i \in at : Cardinality({j \in at : j < i}) = k - 1
  IN [k \in 1..(n + 1) |->
        SubSeq(s, cut(k - 1) + 1, IF k = n + 1 THEN Len(s) ELSE cut(k) - 1)]

\* str.split(sep)
Split(s, sep) == SplitMax(s, sep, Len(s))

\* what idevice_id -l can print: nothing, identifiers one per line
ProbeOutputs == {"", "\n", "u1\n", "u2\n", "u1\nu2\n", "u2\nu1\n", "u1"}

\* a helper run: exit code and standard output, or subprocess.run raising
HelperRuns(outputs) ==
  [rc : {"0", "1"}, stdout : outputs] \cup {[rc |-> "raise", stdout |-> ""]}

\* a variant that takes the output of a failed run
get_device_udid_of_AnyExit(run) ==
  IF run.rc # "raise" /\ Strip(run.stdout) # ""
  THEN Split(Strip(run.stdout), "\n")[1]
  ELSE None

\* lines 76-85: the value returned for a run of the helper
get_device_udid_of(run) ==
  IF run.rc = "0" /\ Strip(run.stdout) # ""
  THEN Split(Strip(run.stdout), "\n")[1]
  ELSE None

\* get_device_udid() called on its own
GetDeviceUdidCall ==
  /\ op = Idle
  /\ \E run \in HelperRuns(ProbeOutputs) :
       Commit("get_device_udid", run.stdout,
              Log(LogL(World, "helper", "idevice_id -l", run.stdout, {run.rc}),
                  "return", "get_device_udid", get_device_udid_of(run)))

\* lines ifuse --list-apps can print: the header, records, records with a
\* comma in the display name, with blanks around the fields, without an
\* identifier, and lines that are no record
AppLines ==
  { "\"CFBundleIdentifier\",\"CFBundleVersion\",\"CFBundleDisplayName\"",
    "com.example.app,x,\"Example App\"",
    "com.a,\"1.0\",\"App A\"",
    "com.b,\"2\",\"B\"",
    "com.c,\"3\",\"Rock, Paper\"",
    " com.d , \"1\" , \"D\" ",
    ",\"1\",\"NoId\"",
    "com.e,\"1\"",
    "Waiting for device",
    "  " }

\* the outputs made of at most two of those lines
AppOutputs ==
  {""} \cup {x \o "\n" : x \in AppLines}
  \cup {x \o "\n" \o y \o "\n" : x \in AppLines, y \in AppLines}

\* a variant that cuts the record at every comma
app_record_EveryComma(line) ==
  LET parts == Split(Strip(line), ",")
  IN IF Len(parts) >= 3
     THEN <<[app_id |-> Strip(parts[1]), app_name |-> StripQuotes(Strip(parts[3]))]>>
     ELSE <<>>

\* lines 115-124: the entry a line yields, if it yields one
app_record(line) ==
  LET parts == SplitMax(Strip(line), ",", 2)
  IN IF Len(parts) >= 3
     THEN <<[app_id |-> Strip(parts[1]), app_name |-> StripQuotes(Strip(parts[3]))]>>
     ELSE <<>>

\* lines 110-124: the loop over the lines from the k-th on
RECURSIVE app_records(_, _)
app_records(lines, k) ==
  IF k > Len(lines) THEN <<>>
  ELSE IF Strip(lines[k]) = "" THEN app_records(lines, k + 1)
  ELSE app_record(lines[k]) \o app_records(lines, k + 1)

\* lines 99-131
get_app_list(run) ==
  IF run.rc = "0" THEN app_records(Split(Strip(run.stdout), "\n"), 1) ELSE <<>>

\* line 175: the text of an entry of the selection dialog
AppLabel(app) == app.app_name \o " (" \o app.app_id \o ")"

\* get_app_list() called on its own; an event for each entry, in order, with
\* the text the dialog shows for it
GetAppListCall ==
  /\ op = Idle
  /\ \E run \in HelperRuns(AppOutputs) :
       LET apps == get_app_list(run)
           w == LogL(World, "helper", "ifuse --list-apps", run.stdout, {run.rc})
       IN Commit("get_app_list", run.stdout,
                 [w EXCEPT !.tr = @ \o [k \in 1..Len(apps) |->
                                          [e |-> "app", a |-> apps[k].app_id,
                                           b |-> apps[k].app_name,
                                           l |-> {AppLabel(apps[k])},
                                           m |-> check_mount(w)]]])

InitHelpers ==
  /\ CURRENT_MOUNT_TYPE = None
  /\ CURRENT_APP_ID = None
  /\ mnt = NoMount
  /\ dir = NoDir
  /\ file_list = {}
  /\ device = <<>>
  /\ op = Idle
  /\ tr = <<>>
  /\ dialogs = <<>>
  /\ after_list_files = FALSE

NextHelpers ==
  \/ GetDeviceUdidCall
  \/ GetAppListCall
  \/ Mainloop

SpecHelpers == InitHelpers /\ [][NextHelpers]_vars

(***************************************************************************)
(* The dispatch of handlers by the Tk event loop.  A messagebox is modal:   *)
(* it holds the grab, so no button of the main window can be invoked while  *)
(* it is open, and it waits in an event loop of its own, which dispatches   *)
(* timer callbacks.  unmount_iphone and list_files run in steps that end    *)
(* where they open a dialog or return.  root.update_idletasks() (line 745)  *)
(* dispatches idle callbacks only, so an enumeration is one step.           *)
(***************************************************************************)
\* the handlers that wait in an open dialog
InProgress == {dialogs[i].handler : i \in DOMAIN dialogs}

\* a handler is entered from the button or the timer named by via
Started(w, name, via) == LogL(w, "start", name, via, InProgress)

\* lines 428-459, up to the messagebox of the path taken
unmount_until_dialog(w) ==
  LET verdict(x) ==
        LET x1 == Log(x, "check_mount", IF check_mount(x) THEN "true" ELSE "false", "")
        IN IF ~check_mount(x) THEN Show(x1, "info", "Unmounted")
           ELSE Show(x1, "error", "Failed to unmount")
  IN IF ~check_mount(w)
     THEN {Show(w, "info", "Not Mounted")}
     ELSE UNION {
            LET r1 == RunUnmount(w, "fusermount -u", o1)
            IN IF r1.raised THEN {Show(r1.w, "error", "Unmount error")}
               ELSE IF r1.rc # 0
               THEN { LET r2 == RunUnmount(Log(r1.w, "returncode", "nonzero", ""),
                                           "fusermount -uz", o2)
                      IN IF r2.raised THEN Show(r2.w, "error", "Unmount error")
                         ELSE verdict(r2.w)
                      : o2 \in RunOutcomes }
               ELSE {verdict(Log(r1.w, "returncode", "zero", ""))}
            : o1 \in RunOutcomes }

\* lines 445-450 after the dialog "Unmounted"; the other dialogs are followed
\* by a status line only
unmount_after_dialog(w, title) ==
  IF title = "Unmounted"
  THEN LET w3 == Log([w EXCEPT !.fl = {}], "write", "file_list", "clear")
           w4 == Log([w3 EXCEPT !.mt = None], "write", "CURRENT_MOUNT_TYPE", None)
       IN Log([w4 EXCEPT !.app = None], "write", "CURRENT_APP_ID", None)
  ELSE w

\* a step of a handler ends: its writes are in place and, if it ended in a
\* messagebox, the handler waits on top of the open dialogs
Step(name, via, w, open) ==
  /\ CURRENT_MOUNT_TYPE' = w.mt
  /\ CURRENT_APP_ID' = w.app
  /\ mnt' = w.mnt
  /\ dir' = w.dir
  /\ file_list' = w.fl
  /\ device' = w.dev
  /\ op' = [name |-> name, arg |-> via]
  /\ tr' = w.tr
  /\ dialogs' = IF w.tr # <<>> /\ w.tr[Len(w.tr)].e = "show"
                THEN Append(open, [handler |-> name, title |-> w.tr[Len(w.tr)].b])
                ELSE open

\* line 1445: the callback of root.after(500, list_files) is due; the event
\* loop that dispatches it is root.mainloop() or the one of an open dialog
AfterListFiles ==
  /\ after_list_files
  /\ after_list_files' = FALSE
  /\ \E w \in list_files(Started(World, "list_files", "after")) :
       Step("list_files", "after", w, dialogs)

\* the button "Unmount"
InvokeUnmount ==
  /\ dialogs = <<>>
  /\ UNCHANGED after_list_files
  /\ \E w \in unmount_until_dialog(Started(World, "unmount_iphone", "button")) :
       Step("unmount_iphone", "button", w, dialogs)

\* the button "Refresh Files"
InvokeListFiles ==
  /\ dialogs = <<>>
  /\ UNCHANGED after_list_files
  /\ \E w \in list_files(Started(World, "list_files", "button")) :
       Step("list_files", "button", w, dialogs)

\* the user closes the dialog on top and the handler that waited in it runs
\* to its end
DismissDialog ==
  /\ dialogs # <<>>
  /\ UNCHANGED after_list_files
  /\ LET top == dialogs[Len(dialogs)]
         w == IF top.handler = "unmount_iphone"
              THEN unmount_after_dialog(World, top.title)
              ELSE World
     IN Step(top.handler, "return", Log(w, "return", top.handler, top.title),
             SubSeq(dialogs, 1, Len(dialogs) - 1))

\* lines 1389-1448: main() up to root.mainloop()
InitDispatch ==
  /\ CURRENT_MOUNT_TYPE = None
  /\ CURRENT_APP_ID = None
  /\ mnt \in MountEntries
  /\ dir \in DirStates
  /\ (mnt.kind # "none" => dir.exists)
  /\ file_list = {}
  /\ device = AttachedDevice
  /\ op = Idle
  /\ tr = <<>>
  /\ dialogs = <<>>
  /\ after_list_files = check_mount(World)

NextDispatch ==
  \/ AfterListFiles
  \/ InvokeUnmount
  \/ InvokeListFiles
  \/ DismissDialog

SpecDispatch == InitDispatch /\ [][NextDispatch]_vars

(***************************************************************************)
(* Reading the events of the handler that has just returned.               *)
(***************************************************************************)
Returned(name) == op.name = name

\* positions of the events of kind e
At(e) == {i \in DOMAIN tr : tr[i].e = e}

\* the helper, probe and file-system calls a handler made
Calls == At("run") \cup At("ifuse") \cup At("get_device_udid") \cup At("call")

Shown(kind, title) ==
  \E i \in At("show") : tr[i].a = kind /\ tr[i].b = title

Mounted == mnt.kind # "none" /\ mnt.alive

\* a write of a mounted value to one of the two lifecycle globals
MountedWrite(i) ==
  /\ tr[i].e = "write"
  /\ tr[i].a \in {"CURRENT_MOUNT_TYPE", "CURRENT_APP_ID"}
  /\ tr[i].b # None

(***************************************************************************)
(* C1.  After mount_iphone returns, if check_mount() is false then          *)
(* CURRENT_MOUNT_TYPE is None, whichever step failed and whatever the       *)
(* starting state was.                                                      *)
(***************************************************************************)
C1_UnmountedAfterFailedMount ==
  (Returned("mount_iphone") /\ ~Mounted) => CURRENT_MOUNT_TYPE = None

(***************************************************************************)
(* C2.  In every reachable state, if the internal mode is Media or          *)
(* Documents then the OS reports MOUNT_PATH as mounted.                     *)
(***************************************************************************)
C2_ModeImpliesMounted ==
  CURRENT_MOUNT_TYPE \in {"media", "documents"} => Mounted

(***************************************************************************)
(* C3.  During a mount attempt neither CURRENT_MOUNT_TYPE nor               *)
(* CURRENT_APP_ID is written with a mounted value before a check_mount()    *)
(* of that attempt has answered true, and a mount attempt that ends         *)
(* unmounted leaves no app id recorded.                                     *)
(***************************************************************************)
C3_NoWriteBeforeCheck ==
  Returned("mount_iphone") =>
    /\ \A i \in DOMAIN tr :
         MountedWrite(i) =>
           \E j \in At("check_mount") : j < i /\ tr[j].a = "true"
    /\ ~Mounted => CURRENT_APP_ID = None

(***************************************************************************)
(* C4.  mount_iphone called while MOUNT_PATH is mounted changes neither     *)
(* the mode nor the app id, nor the mount nor the directory, and makes no   *)
(* device probe, helper call or file removal.                               *)
(***************************************************************************)
C4_AlreadyMountedNoOp ==
  [][(op'.name = "mount_iphone" /\ Mounted) =>
       /\ CURRENT_MOUNT_TYPE' = CURRENT_MOUNT_TYPE
       /\ CURRENT_APP_ID' = CURRENT_APP_ID
       /\ mnt' = mnt
       /\ dir' = dir
       /\ \A i \in DOMAIN tr' :
            tr'[i].e \notin {"run", "ifuse", "get_device_udid", "call"}]_vars

\* a media mount was asked for while a documents mount was up, and returned
C4_Witness ==
  /\ Returned("mount_iphone")
  /\ op.arg = "media"
  /\ Shown("info", "Already Mounted")
  /\ CURRENT_MOUNT_TYPE = "documents"
  /\ Mounted

(***************************************************************************)
(* C5.  As claimed: when the user cancels the app selection of a            *)
(* documents mount, the mode, the app id and the mount directory are as     *)
(* before the call, the mount helper is not run and no error is shown.      *)
(***************************************************************************)
UserCancelled(t) == \E i \in DOMAIN t : t[i].e = "select" /\ t[i].a = None

NoHelperNoError(t) ==
  \A i \in DOMAIN t : t[i].e # "ifuse" /\ ~(t[i].e = "show" /\ t[i].a = "error")

C5_CancelChangesNothing ==
  [][(op'.name = "mount_iphone" /\ UserCancelled(tr')) =>
       /\ CURRENT_MOUNT_TYPE' = CURRENT_MOUNT_TYPE
       /\ CURRENT_APP_ID' = CURRENT_APP_ID
       /\ dir' = dir
       /\ NoHelperNoError(tr')]_vars

(***************************************************************************)
(* C5, amended.  When the user cancels the app selection, the mount helper  *)
(* is not run, no error is shown, and the call ends unmounted with the mode *)
(* and the app id None; the mount directory has been prepared by then: an   *)
(* existing one keeps its permissions and subdirectories but may have lost  *)
(* its loose files, a missing one has been created.                         *)
(***************************************************************************)
C5_CancelAborts ==
  [][(op'.name = "mount_iphone" /\ UserCancelled(tr')) =>
       /\ CURRENT_MOUNT_TYPE' = None
       /\ CURRENT_APP_ID' = None
       /\ ~(mnt'.kind # "none" /\ mnt'.alive)
       /\ NoHelperNoError(tr')
       /\ (mnt.kind = "none" /\ dir.exists) =>
            /\ dir'.exists
            /\ dir'.perm = dir.perm
            /\ dir'.sub = dir.sub
            /\ dir'.files \subseteq dir.files]_vars

\* the loose files were removed, then the user cancelled
C5_Witness ==
  /\ Returned("mount_iphone")
  /\ UserCancelled(tr)
  /\ \E i \in At("call") : tr[i].a = "os.remove" /\ tr[i].b = ""
  /\ tr[Len(tr)].e = "status"

(***************************************************************************)
(* C6.  When the device probe returns no identifier, the mount attempt      *)
(* ends by showing NoDeviceFound, has not run the mount helper, has probed  *)
(* once, and leaves the mode None.                                          *)
(***************************************************************************)
NoDeviceProbed == \E i \in At("get_device_udid") : tr[i].a = None

C6_NoDeviceFound ==
  (Returned("mount_iphone") /\ NoDeviceProbed) =>
    /\ tr[Len(tr)].e = "show"
    /\ tr[Len(tr)].a = "error"
    /\ tr[Len(tr)].b = "NoDeviceFound"
    /\ At("ifuse") = {}
    /\ Cardinality(At("get_device_udid")) = 1
    /\ CURRENT_MOUNT_TYPE = None

C6_Witness ==
  /\ Returned("mount_iphone")
  /\ op.arg = "documents"
  /\ NoDeviceProbed

(***************************************************************************)
(* C7.  When the helper has run and check_mount() is false, stderr is read  *)
(* and, if it decodes, the error shown is NoDeviceFound when the text holds *)
(* "No device found", else PermissionDenied when it holds "Permission       *)
(* denied", else the generic failure; in every such case the mode is not    *)
(* Media or Documents.                                                      *)
(***************************************************************************)
Classified(phrases) ==
  IF "No device found" \in phrases THEN "NoDeviceFound"
  ELSE IF "Permission denied" \in phrases THEN "PermissionDenied"
  ELSE "HelperGenericFailure"

C7_Classification ==
  Returned("mount_iphone") =>
    /\ \A j \in At("check_mount") :
         tr[j].a = "false" => (j < Len(tr) /\ tr[j + 1].e = "stderr")
    /\ \A i \in At("stderr") :
         /\ CURRENT_MOUNT_TYPE \notin {"media", "documents"}
         /\ Len(tr) = i + 1
         /\ tr[i + 1].e = "show"
         /\ tr[i + 1].a = "error"
         /\ tr[i].a = "utf8" => tr[i + 1].b = Classified(tr[i].l)

\* stderr held both phrases and NoDeviceFound was shown
C7_Witness ==
  /\ Returned("mount_iphone")
  /\ \E i \in At("stderr") :
       tr[i].a = "utf8" /\ tr[i].l = {"No device found", "Permission denied"}
  /\ Shown("error", "NoDeviceFound")

(***************************************************************************)
(* C8.  A documents mount whose check_mount() after the helper is true ends *)
(* in mode Documents with CURRENT_APP_ID the id the user selected from the  *)
(* list fetched in this attempt, the id the helper was given with           *)
(* --documents; a media mount that succeeds ends in mode Media.             *)
(***************************************************************************)
MountSucceeded == \E j \in At("check_mount") : tr[j].a = "true"

C8_SuccessState ==
  (Returned("mount_iphone") /\ MountSucceeded) =>
    IF op.arg = "documents"
    THEN /\ CURRENT_MOUNT_TYPE = "documents"
         /\ CURRENT_APP_ID \notin {None, ""}
         /\ \E g \in At("get_app_list") : \E s \in At("select") : \E f \in At("ifuse") :
              /\ g < s /\ s < f
              /\ tr[s].a \in tr[g].l
              /\ tr[s].a = CURRENT_APP_ID
              /\ tr[f].b = CURRENT_APP_ID
         /\ Cardinality(At("ifuse")) = 1
    ELSE /\ CURRENT_MOUNT_TYPE = "media"
         /\ \A f \in At("ifuse") : tr[f].b = None

C8_Witness ==
  /\ Returned("mount_iphone")
  /\ op.arg = "documents"
  /\ MountSucceeded
  /\ CURRENT_APP_ID = "com.b"
  /\ mnt.kind = "documents"

(***************************************************************************)
(* C9.  unmount_iphone called while MOUNT_PATH is not mounted runs no       *)
(* unmount helper and leaves the mode, the app id, the listing and the      *)
(* mount table as they were.                                                *)
(***************************************************************************)
C9_UnmountNotMountedNoOp ==
  [][(op'.name = "unmount_iphone" /\ ~Mounted) =>
       /\ CURRENT_MOUNT_TYPE' = CURRENT_MOUNT_TYPE
       /\ CURRENT_APP_ID' = CURRENT_APP_ID
       /\ file_list' = file_list
       /\ mnt' = mnt
       /\ \A i \in DOMAIN tr' : tr'[i].e # "run"]_vars

\* unmount was asked for with a listing on screen and nothing mounted
C9_Witness ==
  /\ Returned("unmount_iphone")
  /\ Shown("info", "Not Mounted")
  /\ file_list # {}
  /\ ~Mounted

(***************************************************************************)
(* C10.  unmount_iphone called while mounted: if MOUNT_PATH is no longer    *)
(* mounted when it returns, the mode and the app id are None and the        *)
(* listing is empty; if it is still mounted, the mode, the app id and the   *)
(* listing are as before.                                                   *)
(***************************************************************************)
C10_UnmountOutcome ==
  [][(op'.name = "unmount_iphone" /\ Mounted) =>
       IF ~(mnt'.kind # "none" /\ mnt'.alive)
       THEN /\ CURRENT_MOUNT_TYPE' = None
            /\ CURRENT_APP_ID' = None
            /\ file_list' = {}
       ELSE /\ CURRENT_MOUNT_TYPE' = CURRENT_MOUNT_TYPE
            /\ CURRENT_APP_ID' = CURRENT_APP_ID
            /\ file_list' = file_list]_vars

\* the forced unmount took a documents mount down
C10_Witness ==
  /\ Returned("unmount_iphone")
  /\ \E i \in At("run") : tr[i].a = "fusermount -uz"
  /\ Shown("info", "Unmounted")
  /\ ~Mounted
  /\ CURRENT_MOUNT_TYPE = None
  /\ file_list = {}

(***************************************************************************)
(* C11.  As claimed: when is_documents_mount is called with the mode        *)
(* "documents" while the mount table holds no documents line for MOUNT_PATH *)
(* (no line, or a line without the marker), the call sets the mode to       *)
(* "media" if MOUNT_PATH is mounted and to None if it is not.               *)
(***************************************************************************)
C11_StaleDocumentsReconciled ==
  [][(op'.name = "is_documents_mount"
        /\ CURRENT_MOUNT_TYPE = "documents"
        /\ ~HasDocumentsMarker(World)) =>
       CURRENT_MOUNT_TYPE' = IF Mounted THEN "media" ELSE None]_vars

(***************************************************************************)
(* C12.  is_documents_mount returns true iff the mode is "documents" or the *)
(* mount table has a line for MOUNT_PATH with the documents marker.  With   *)
(* the mode "documents" nothing is written; otherwise a line with the       *)
(* marker sets the mode to "documents", a line without it sets the mode to  *)
(* "media" if mounted and None if not, and no line leaves the mode alone.   *)
(* Nothing but the mode is changed.                                         *)
(***************************************************************************)
C12_IsDocumentsMountResult ==
  [][op'.name = "is_documents_mount" =>
       LET line == mnt.kind # "none"
           marker == line /\ mnt.marker
           internal == CURRENT_MOUNT_TYPE = "documents"
       IN /\ op'.arg = BoolStr(internal \/ marker)
          /\ internal => CURRENT_MOUNT_TYPE' = CURRENT_MOUNT_TYPE
          /\ (~internal /\ marker) => CURRENT_MOUNT_TYPE' = "documents"
          /\ (~internal /\ line /\ ~marker) =>
               CURRENT_MOUNT_TYPE' = IF Mounted THEN "media" ELSE None
          /\ (~internal /\ ~line) => CURRENT_MOUNT_TYPE' = CURRENT_MOUNT_TYPE
          /\ UNCHANGED <<CURRENT_APP_ID, mnt, dir, file_list>>]_vars

\* the scan found the marker and the mode was set from it
C12_Witness ==
  /\ Returned("is_documents_mount")
  /\ op.arg = "true"
  /\ \E i \in At("write") : tr[i].a = "CURRENT_MOUNT_TYPE" /\ tr[i].b = "documents"
  /\ CURRENT_MOUNT_TYPE = "documents"

(***************************************************************************)
(* C13.  As claimed: an upload started with the mode "media" ends with the  *)
(* Documents-mode-required message and opens no file under MOUNT_PATH; and  *)
(* in any upload a file under MOUNT_PATH is opened only after               *)
(* is_documents_mount has returned true in that upload.                     *)
(***************************************************************************)
ShownIn(t, kind, title) ==
  \E i \in DOMAIN t : t[i].e = "show" /\ t[i].a = kind /\ t[i].b = title

C13_MediaUploadRejected ==
  [][op'.name = "upload_file" =>
       /\ CURRENT_MOUNT_TYPE = "media" =>
            /\ ShownIn(tr', "info", "Documents Mode Required")
            /\ \A i \in DOMAIN tr' : tr'[i].e # "open"
       /\ \A i \in DOMAIN tr' :
            tr'[i].e = "open" =>
              \E j \in 1..(i - 1) :
                tr'[j].e = "is_documents_mount" /\ tr'[j].a = "true"]_vars

(***************************************************************************)
(* C14.  As claimed: two calls of reset_mount_point in a row, started with  *)
(* nothing mounted at MOUNT_PATH, both return true and each leaves the      *)
(* directory existing, empty and owner-writable.                            *)
(***************************************************************************)
ReturnsIn(t) == {i \in DOMAIN t : t[i].e = "return"}

CreateFailedIn(t, from, to) ==
  \E j \in DOMAIN t : from < j /\ j < to /\ t[j].e = "debug"

Ran(cmd) == \E i \in At("run") : tr[i].a = cmd

C16_EveryStepAttempted ==
  /\ Returned("deep_clean_mount_point") =>
       \A c \in {"fusermount -u", "sudo umount -f", "sudo rm -rf",
                 "sudo mkdir -p", "sudo chown", "sudo chmod"} : Ran(c)
  /\ Returned("reset_mount_point") =>
       /\ \A c \in {"fusermount -u", "fusermount -uz", "sudo umount -f"} : Ran(c)
       /\ \E i \in At("call") : tr[i].a = "os.makedirs"
       /\ \A i \in At("call") :
            (tr[i].a = "os.makedirs" /\ ~tr[i].m) => Ran("rm -rf")

(***************************************************************************)
(* C17.  As claimed: a listing made with the mode "documents" that is not   *)
(* cut short, and in which no directory raised, shows every file of the     *)
(* device, those under system directories included.                         *)
(***************************************************************************)
FileEntries(lines) == lines \ (HeaderLines \cup EmptyLines \cup LimitLines)

\* no directory of the walk raised
NoWalkError(t) == \A i \in DOMAIN t : t[i].e # "except"

C17_DocumentsShowsEverything ==
  [][(op'.name = "list_files"
        /\ CURRENT_MOUNT_TYPE = "documents"
        /\ NoWalkError(tr')
        /\ LimitLine \notin file_list') =>
       FileEntries(file_list') = Range(device)]_vars

(***************************************************************************)
(* C18.  As claimed: a listing made with the mode "media" that is not cut   *)
(* short, and in which no directory raised, shows exactly the files of the  *)
(* device that is_system_file does not classify as hidden.                  *)
(***************************************************************************)
C18_MediaShowsExactlyNotHidden ==
  [][(op'.name = "list_files"
        /\ CURRENT_MOUNT_TYPE = "media"
        /\ NoWalkError(tr')
        /\ LimitLine \notin file_list') =>
       FileEntries(file_list') = {f \in Range(device) : ~IsSystemFile[f]}]_vars

(***************************************************************************)
(* C19.  is_system_file returns a boolean for every string, the empty one   *)
(* included, and changes nothing; it returns true exactly when the base     *)
(* name starts with ".", or the path equals or lies under one of the        *)
(* directories of its list, or the path contains one of its patterns.       *)
(***************************************************************************)
DotRule(f) ==
  \E i \in 0..Len(f) :
    /\ i = 0 \/ SubSeq(f, i, i) = "/"
    /\ \A k \in (i + 1)..Len(f) : SubSeq(f, k, k) # "/"
    /\ i < Len(f)
    /\ SubSeq(f, i + 1, i + 1) = "."

PrefixRule(f) ==
  \E d \in {RStripSlash(x) : x \in system_directories} :
    f = d \/ (Len(f) > Len(d) /\ SubSeq(f, 1, Len(d) + 1) = d \o "/")

PatternRule(f) ==
  \E q \in system_patterns :
    \E i \in 1..Len(f) : \E k \in i..Len(f) : SubSeq(f, i, k) = q

C20_NeverMoreThanCeiling ==
  [][op'.name = "list_files" =>
       Cardinality(FileEntries(file_list')) <= max_files]_vars

(***************************************************************************)
(* C21.  As claimed: a listing in which no directory raised reports that    *)
(* it was cut short whenever the device holds more files to show than       *)
(* max_files, and never when every file to show is in the listbox.          *)
(***************************************************************************)
\* the files of a device that a listing in the mode mt shows when nothing
\* cuts it short
Accepted(mt, dev) ==
  {f \in Range(dev) : Walked(mt, Dirname(f)) /\ ~(mt = "media" /\ HiddenInMedia[f])}

C21_TruncatedIffOverCeiling ==
  [][(op'.name = "list_files" /\ Mounted /\ NoWalkError(tr')) =>
       LET accepted == Accepted(CURRENT_MOUNT_TYPE, device)
           reported == LimitLine \in file_list'
       IN /\ Cardinality(accepted) > max_files => reported
          /\ accepted \subseteq file_list' => ~reported]_vars

(***************************************************************************)
(* C28.  As claimed: once max_files files have been accepted by a listing,  *)
(* no further file is accepted or counted as hidden in it.                  *)
(***************************************************************************)
C28_StopsAtCeiling ==
  Returned("list_files") =>
    \A i \in At("append") :
      Cardinality({j \in At("append") : j <= i}) = max_files =>
        \A k \in DOMAIN tr : k > i => tr[k].e \notin {"append", "skip"}

(***************************************************************************)
(* C29.  A listing puts files in the listbox in runs of at most batch_size  *)
(* between two refreshes of the window, and when it is not cut short the    *)
(* files put in the listbox are the files accepted, each once and in the    *)
(* order of the walk, those of the last, partial batch included.            *)
(***************************************************************************)
\* the paths of the events of kind e, in the order they happened
PathsOf(e) ==
  LET q == SelectSeq(tr, LAMBDA x : x.e = e)
  IN [k \in 1..Len(q) |-> q[k].a]

\* position of a file in the walk of the device
WalkPos(f) == CHOOSE i \in DOMAIN device : device[i] = f

C29_BatchesDeliverAll ==
  Returned("list_files") =>
    /\ \A i \in At("insert") :
         (i + batch_size) \in DOMAIN tr =>
           \E k \in i..(i + batch_size) : tr[k].e # "insert"
    /\ At("limit") = {} =>
         /\ PathsOf("insert") = PathsOf("append")
         /\ FileEntries(file_list) = Range(PathsOf("append"))
         /\ \A k \in DOMAIN PathsOf("insert") : \A n \in DOMAIN PathsOf("insert") :
              k < n => WalkPos(PathsOf("insert")[k]) < WalkPos(PathsOf("insert")[n])

\* a full batch was put in the listbox, then a partial one
C29_Witness ==
  /\ Returned("list_files")
  /\ At("limit") = {}
  /\ At("update_idletasks") # {}
  /\ \E i \in At("insert") : \A j \in At("update_idletasks") : j < i
  /\ \E i \in At("skip") : \E j \in At("append") : i < j

(***************************************************************************)
(* C30.  When one directory raises during a listing that is not cut short,  *)
(* no listing failure is shown, the listing runs to its end, and every file *)
(* to show of every other directory, walked before or after it, is in the   *)
(* listbox; no other file is, and the file at which the directory raised is *)
(* not.                                                                     *)
(***************************************************************************)
Raised == {tr[i].b : i \in At("except")}

C30_ErrorSkipsOneDirectory ==
  (Returned("list_files") /\ Mounted /\ Raised # {} /\ At("limit") = {}) =>
    LET accepted == Accepted(CURRENT_MOUNT_TYPE, device)
    IN /\ At("show") = {}
       /\ tr[Len(tr)].e = "write"
       /\ tr[Len(tr)].b = "fill"
       /\ {f \in accepted : Dirname(f) \notin Raised} \subseteq file_list
       /\ FileEntries(file_list) \subseteq accepted
       /\ \A i \in At("except") : tr[i].l \cap file_list = {}

\* DCIM raised after its first file; the root before it and .cache after it
\* are listed
C30_Witness ==
  /\ Returned("list_files")
  /\ Mounted
  /\ Raised = {"DCIM"}
  /\ "notes.txt" \in file_list
  /\ "DCIM/IMG_0001.JPG" \in file_list
  /\ "DCIM/IMG_0002.JPG" \in Range(device)
  /\ ".cache/db.sqlite" \in file_list

(***************************************************************************)
(* C22.  As claimed: when unmount_iphone, reset_mount_point_ui or           *)
(* deep_clean_mount_point takes the mount at MOUNT_PATH down, the listbox   *)
(* is empty when it returns; and after a mount attempt that mounts, every   *)
(* file in the listbox was put there by the listing made in that attempt,   *)
(* after the listbox was cleared.                                           *)
(***************************************************************************)
C22_NoEntryAcrossTeardown ==
  [][/\ (/\ op'.name \in {"unmount_iphone", "reset_mount_point_ui",
                          "deep_clean_mount_point"}
         /\ Mounted
         /\ ~(mnt'.kind # "none" /\ mnt'.alive)) => file_list' = {}
     /\ (op'.name = "mount_iphone" /\ ~Mounted /\ mnt'.kind # "none" /\ mnt'.alive) =>
          \A f \in FileEntries(file_list') :
            \E c \in DOMAIN tr' : \E i \in DOMAIN tr' :
              /\ c < i
              /\ tr'[c].e = "write" /\ tr'[c].a = "file_list" /\ tr'[c].b = "clear"
              /\ tr'[i].e = "insert" /\ tr'[i].a = f]_vars

(***************************************************************************)
(* C23.  As claimed: when mount_iphone runs the mount helper, MOUNT_PATH    *)
(* was not mounted when the call began, the device probe of the call        *)
(* returned an identifier, and the mount directory exists and is            *)
(* owner-writable when the helper is started.                               *)
(***************************************************************************)
C23_HelperOnlyWhenGuardHolds ==
  [][(op'.name = "mount_iphone" /\ \E i \in DOMAIN tr' : tr'[i].e = "ifuse") =>
       /\ ~Mounted
       /\ \A i \in DOMAIN tr' : tr'[i].e = "ifuse" => tr'[i].a \in Udids
       /\ dir'.exists
       /\ dir'.perm = "rwx"]_vars

(***************************************************************************)
(* C24.  As claimed: a command is run under sudo only by                    *)
(* deep_clean_mount_point, and when that is called after a failed reset,    *)
(* only after the user has answered yes to the question that offers it.     *)
(***************************************************************************)
C24_NoSudoWithoutConsent ==
  \A i \in At("run") :
    StartsWith(tr[i].a, "sudo") =>
      \/ Returned("deep_clean_mount_point")
      \/ \E j \in At("ask") : j < i /\ tr[j].a = "Reset Failed" /\ tr[j].b = "yes"

(***************************************************************************)
(* C25.  As claimed: when reset_mount_point returns true, MOUNT_PATH is not *)
(* mounted.                                                                 *)
(***************************************************************************)
C25_ResetSuccessMeansUnmounted ==
  (Returned("reset_mount_point") /\ op.arg = "true") => ~Mounted

(***************************************************************************)
(* C26.  unmount_iphone called while mounted runs fusermount -u exactly     *)
(* once, before anything else; it runs fusermount -uz, at most once and     *)
(* after it, exactly when fusermount -u returned a nonzero exit code; it    *)
(* runs no other command; check_mount() is asked only after the commands,   *)
(* and the mode, the app id and the listbox are written only after          *)
(* check_mount() has answered.                                              *)
(***************************************************************************)
RunsOf(t, cmd) == {i \in DOMAIN t : t[i].e = "run" /\ t[i].a = cmd}

C26_UnmountOrder ==
  [][(op'.name = "unmount_iphone" /\ Mounted) =>
       LET t == tr'
           runs == {i \in DOMAIN t : t[i].e = "run"}
           graceful == RunsOf(t, "fusermount -u")
           forced == RunsOf(t, "fusermount -uz")
           checks == {i \in DOMAIN t : t[i].e = "check_mount"}
           writes == {i \in DOMAIN t : t[i].e = "write"}
       IN /\ graceful = {1}
          /\ runs = graceful \cup forced
          /\ Cardinality(forced) <= 1
          /\ forced # {} <=> (Len(t) >= 2 /\ t[2].e = "returncode" /\ t[2].a = "nonzero")
          /\ \A c \in checks : \A r \in runs : r < c
          /\ \A x \in writes : \E c \in checks : c < x /\ t[c].a = "false"
          /\ (\/ CURRENT_MOUNT_TYPE' # CURRENT_MOUNT_TYPE
              \/ CURRENT_APP_ID' # CURRENT_APP_ID
              \/ file_list' # file_list) => writes # {}]_vars

\* the first unmount failed, the forced one ran, and MOUNT_PATH was still
\* mounted when check_mount() was asked
C26_Witness ==
  /\ Returned("unmount_iphone")
  /\ RunsOf(tr, "fusermount -uz") = {3}
  /\ \E c \in At("check_mount") : c > 3 /\ tr[c].a = "true"
  /\ Shown("error", "Failed to unmount")
  /\ Mounted

(***************************************************************************)
(* C27.  A mount attempt that goes past the already-mounted check takes its *)
(* steps in this order, each at most once: fusermount -u on a stale mount,  *)
(* the mode and the app id set to None, the loose files of the mount        *)
(* directory removed, the device probe, for a documents mount the app       *)
(* selection, the mount helper, check_mount().  A step is taken only after  *)
(* the steps before it, and the identifier the helper is given is the one   *)
(* the probe of this attempt returned.                                      *)
(***************************************************************************)
C27_MountStepOrder ==
  Returned("mount_iphone") =>
    LET clear == {i \in At("write") : tr[i].a = "CURRENT_MOUNT_TYPE" /\ tr[i].b = None}
        clean == {i \in At("call") : tr[i].a \in {"os.listdir", "os.remove"}}
        probe == At("get_device_udid")
        choice == At("get_app_list") \cup At("select")
        helper == At("ifuse")
        checks == At("check_mount")
    IN /\ \A S \in {clear, clean, probe, helper, checks, At("get_app_list"), At("select")} :
            Cardinality(S) <= 1
       /\ \A c \in clear : c > 1 /\ tr[c - 1].e = "run" /\ tr[c - 1].a = "fusermount -u"
       /\ \A k \in clean : \E c \in clear : c < k
       /\ \A p \in probe : \E k \in clean : k < p
       /\ \A x \in choice : op.arg = "documents" /\ \E p \in probe : p < x
       /\ \A h \in helper :
            /\ \E p \in probe : p < h /\ tr[p].a \in Udids /\ tr[h].a = tr[p].a
            /\ \A x \in choice : x < h
            /\ op.arg = "documents" => At("select") # {}
       /\ \A c \in checks : \E h \in helper : h < c
       /\ (~Shown("info", "Already Mounted")
             /\ ~Shown("error", "Failed to create mount directory")) =>
            RunsOf(tr, "fusermount -u") # {}

\* a documents mount of device u2 that removed loose files on its way
C27_Witness ==
  /\ Returned("mount_iphone")
  /\ op.arg = "documents"
  /\ \E i \in At("call") : tr[i].a = "os.remove" /\ tr[i].b = ""
  /\ \E p \in At("get_device_udid") : \E h \in At("ifuse") :
       tr[p].a = "u2" /\ tr[h].a = "u2" /\ tr[h].b = "com.a"
  /\ \E c \in At("check_mount") : tr[c].a = "true"
  /\ CURRENT_MOUNT_TYPE = "documents"

(***************************************************************************)
(* C36.  As claimed: in every state between two operations an app id is     *)
(* recorded exactly when the mode is "documents".                           *)
(***************************************************************************)
C36_AppIdIffDocuments ==
  (CURRENT_MOUNT_TYPE = "documents") <=> (CURRENT_APP_ID # None)

(***************************************************************************)
(* C37.  As claimed: when list_files runs with MOUNT_PATH mounted, the mode *)
(* is "media" or "documents", and the listing of a media mount shows none   *)
(* of the files the media filter hides; the listing made when the program   *)
(* starts on a mounted device is one of them.                               *)
(***************************************************************************)
C37_ListingHasMode ==
  [][(op'.name = "list_files" /\ Mounted) =>
       /\ CURRENT_MOUNT_TYPE \in {"media", "documents"}
       /\ mnt.kind = "media" =>
            \A f \in Range(device) : HiddenInMedia[f] => f \notin file_list']_vars

(***************************************************************************)
(* C38.  As claimed: a listing shows the Documents header exactly when the  *)
(* mode is "documents", which is when it does not filter, and it shows the  *)
(* empty-folder hint only then.                                             *)
(***************************************************************************)
C38_HeaderIffDocuments ==
  [][(op'.name = "list_files" /\ Mounted) =>
       /\ HeaderLine \in file_list' <=> CURRENT_MOUNT_TYPE = "documents"
       /\ HeaderLine \in file_list' => \A i \in DOMAIN tr' : tr'[i].e # "skip"
       /\ EmptyLines \subseteq file_list' => CURRENT_MOUNT_TYPE = "documents"]_vars

(***************************************************************************)
(* C35.  As claimed: no handler removes files or directories at MOUNT_PATH  *)
(* while MOUNT_PATH is mounted: the removal of loose files in a mount       *)
(* attempt, the removal of the tree in a reset and the removal under sudo   *)
(* in a deep clean are each started only when check_mount() would answer    *)
(* false.                                                                   *)
(***************************************************************************)
Removals ==
  {i \in At("run") : tr[i].a \in {"rm -rf", "sudo rm -rf"}}
  \cup {i \in At("call") : tr[i].a \in {"shutil.rmtree", "os.remove"}}

C35_NoRemovalWhileMounted ==
  \A i \in Removals : ~tr[i].m

(***************************************************************************)
(* C32.  As claimed: when the copy of an upload raises, an exception whose  *)
(* text holds "Function not implemented" is shown as the iOS limitation and *)
(* not as a permission error, a permission error is shown as a permission   *)
(* error, any other exception as the generic upload error, and no upload is *)
(* reported as done.                                                        *)
(***************************************************************************)
C32_WriteFailureClassified ==
  Returned("upload_file") =>
    \A i \in At("raise") :
      /\ tr[i].b = "true" =>
           Shown("error", "iOS Limitation") /\ ~Shown("error", "Permission Error")
      /\ tr[i].a = "PermissionError" => Shown("error", "Permission Error")
      /\ (tr[i].a # "PermissionError" /\ tr[i].b = "false") =>
           Shown("error", "Upload error")
      /\ ~Shown("info", "Uploaded")

(***************************************************************************)
(* C32, amended.  When the copy of an upload raises, the class of the       *)
(* exception is looked at first: a PermissionError is shown as a permission *)
(* error whatever its text holds; any other OSError is shown as the iOS     *)
(* limitation if its text holds "Function not implemented" and as the       *)
(* generic upload error if not.  Exactly one error is shown, it ends the    *)
(* call, no upload is reported as done and the listbox is not refreshed.    *)
(***************************************************************************)
C32_ClassThenMessage ==
  Returned("upload_file") =>
    \A i \in At("raise") :
      LET title == IF tr[i].a = "PermissionError" THEN "Permission Error"
                   ELSE IF tr[i].b = "true" THEN "iOS Limitation"
                   ELSE "Upload error"
          errors == {j \in At("show") : tr[j].a = "error"}
      IN /\ errors = {Len(tr)}
         /\ tr[Len(tr)].b = title
         /\ ~Shown("info", "Uploaded")
         /\ \A j \in At("write") : tr[j].a # "file_list"

\* a permission error on a file whose name holds the phrase
C32_Witness ==
  /\ Returned("upload_file")
  /\ \E i \in At("raise") : tr[i].a = "PermissionError" /\ tr[i].b = "true"
  /\ Shown("error", "Permission Error")

(***************************************************************************)
(* C34.  get_device_udid returns the first line of what idevice_id -l       *)
(* printed exactly when the helper exited with 0 and printed something      *)
(* other than white space; when it exited with another code, printed        *)
(* nothing or only white space, or could not be launched, it returns None.  *)
(***************************************************************************)
\* the text before the first line break
FirstLine(s) ==
  LET breaks == {i \in 1..Len(s) : SubSeq(s, i, i) = "\n"}
  IN IF breaks = {} THEN s
     ELSE SubSeq(s, 1, (CHOOSE i \in breaks : \A k \in breaks : i <= k) - 1)

Blank(s) == \A i \in 1..Len(s) : IsSpace(SubSeq(s, i, i))

C34_ProbeResult ==
  Returned("get_device_udid") =>
    /\ Len(tr) = 2
    /\ tr[1].e = "helper"
    /\ tr[2].e = "return"
    /\ IF tr[1].l = {"0"} /\ ~Blank(tr[1].b)
       THEN tr[2].b = FirstLine(tr[1].b) /\ tr[2].b # None
       ELSE tr[2].b = None

\* two devices are attached and the first one is returned
C34_Witness ==
  /\ Returned("get_device_udid")
  /\ tr[1].l = {"0"}
  /\ tr[1].b = "u2\nu1\n"
  /\ tr[2].b = "u2"

(***************************************************************************)
(* C33.  As claimed: get_app_list yields, in the order of the output, one   *)
(* entry for each line of ifuse --list-apps that has at least three fields  *)
(* between commas, with the first field as app id and the third field,      *)
(* without its surrounding quotes, as display name; other lines yield       *)
(* nothing, and a run that did not exit with 0 yields no entry.             *)
(***************************************************************************)
\* the lines of an output that are records
Records(stdout) ==
  SelectSeq(Split(stdout, "\n"), LAMBDA x : Len(Split(x, ",")) >= 3)

\* the entries of the call that has returned
Entries == SelectSeq(tr, LAMBDA x : x.e = "app")

C33_OneEntryPerRecord ==
  Returned("get_app_list") =>
    LET records == IF tr[1].l = {"0"} THEN Records(tr[1].b) ELSE <<>>
    IN /\ Len(Entries) = Len(records)
       /\ \A k \in DOMAIN records :
            LET fields == Split(records[k], ",")
            IN /\ Entries[k].a = Strip(fields[1])
               /\ Entries[k].b = StripQuotes(Strip(fields[3]))

(***************************************************************************)
(* C33, amended.  get_app_list yields, in the order of the output, one      *)
(* entry for each line that has at least two commas: the app id is the      *)
(* text before the first comma and the display name is all the text after   *)
(* the second comma, further commas included, each without the white space  *)
(* around it and the display name without the quotes around it.  Other      *)
(* lines yield nothing and a run that did not exit with 0 yields no entry.  *)
(* The dialog offers "display name (app id)" for each entry.                *)
(***************************************************************************)
\* positions of the commas of a line
Commas(x) == {i \in 1..Len(x) : SubSeq(x, i, i) = ","}

C33_NameIsRestOfLine ==
  Returned("get_app_list") =>
    LET records == IF tr[1].l = {"0"} THEN Records(tr[1].b) ELSE <<>>
    IN /\ Len(Entries) = Len(records)
       /\ Len(tr) = 1 + Len(records)
       /\ \A k \in DOMAIN records :
            \E i \in Commas(records[k]) : \E j \in Commas(records[k]) :
              /\ i < j
              /\ \A c \in Commas(records[k]) : c = i \/ c >= j
              /\ Entries[k].a = Strip(SubSeq(records[k], 1, i - 1))
              /\ Entries[k].b =
                   StripQuotes(Strip(SubSeq(records[k], j + 1, Len(records[k]))))
              /\ Entries[k].l = {Entries[k].b \o " (" \o Entries[k].a \o ")"}

\* a display name with a comma in it, after a line that is no record
C33_Witness ==
  /\ Returned("get_app_list")
  /\ tr[1].l = {"0"}
  /\ Len(Entries) = 1
  /\ Entries[1].a = "com.c"
  /\ Entries[1].b = "Rock, Paper"
  /\ Entries[1].l = {"Rock, Paper (com.c)"}
  /\ Len(Split(tr[1].b, "\n")) = 3

(***************************************************************************)
(* C31.  No handler is entered while another handler has not returned: not  *)
(* from a button, not from the callback main() schedules at startup, not    *)
(* while a handler waits in a modal dialog.                                 *)
(***************************************************************************)
C31_NoOperationInsideAnother ==
  \A i \in At("start") : tr[i].l = {}
====
